---- MODULE Spec2Model ----
(***************************************************************************)
(* A model of qasm2stim (src/qasm2stim.cpp): the OpenQASM 2 -> Stim        *)
(* translator.  Bytes are one-character strings, buffers are sequences of  *)
(* bytes, and a pointer into a buffer is a 0-based offset, as in the code. *)
(* One action is one iteration of a loop of the program: main's loop over  *)
(* the directory entries, and to_stim's loop over the statements.          *)
(***************************************************************************)
EXTENDS Integers, Sequences, FiniteSets, TLC

(***************************************************************************)
(* Bounds of the model.                                                    *)
(***************************************************************************)
\* statements in one file of the mixed family of inputs
MaxStmts == 2
\* statements in one file of the family of same-mnemonic runs
MaxRun == 3
\* directory entries in one batch
MaxFiles == 2
\* bytes of memory modelled behind the terminating NUL of the input
MaxOverrun == 2

(***************************************************************************)
(* Characters.                                                             *)
(***************************************************************************)
\* the byte '\0'
NUL == "NUL"

Digits == {"0", "1", "2", "3", "4", "5", "6", "7", "8", "9"}

Letters ==
  {"a", "b", "c", "d", "e", "f", "g", "h", "i", "j", "k", "l", "m",
   "n", "o", "p", "q", "r", "s", "t", "u", "v", "w", "x", "y", "z",
   "A", "B", "C", "D", "E", "F", "G", "H", "I", "J", "K", "L", "M",
   "N", "O", "P", "Q", "R", "S", "T", "U", "V", "W", "X", "Y", "Z"}

\* (ch ^ 48) <= 9: on the bytes 0..127 exactly the decimal digits
isDigit(ch) == ch \in Digits

\* (ch >= 9 && ch <= 13) || ch == 32
isSpace(ch) == ch \in {"\t", "\n", "\f", "\r", " "}

\* isalpha(ch) || ch == '_', the test of the mnemonic reader
isNameChar(ch) == ch \in Letters \/ ch = "_"

\* the line terminator of the build: "\r\n" under __linux__ / __CYGWIN__
EOL(lnx) == IF lnx THEN <<"\r", "\n">> ELSE <<"\n">>

(***************************************************************************)
(* Memory reads.  str[i] of a NUL-terminated buffer: the byte behind the   *)
(* last one is NUL (qasm[size] = '\0', or the zero fill of the last mapped *)
(* page).                                                                  *)
(***************************************************************************)
At(buf, i) == IF i < Len(buf) THEN buf[i + 1] ELSE NUL

\* the C string that starts at offset i of buf
Suffix(buf, i) == SubSeq(buf, i + 1, Len(buf))

(***************************************************************************)
(* Primitive scanner.                                                      *)
(***************************************************************************)
RECURSIVE eatWS(_, _)
eatWS(buf, str) == IF isSpace(At(buf, str)) THEN eatWS(buf, str + 1) ELSE str

RECURSIVE eatLine(_, _)
eatLine(buf, str) ==
  IF At(buf, str) = NUL THEN str
  ELSE IF At(buf, str) = "\n" THEN str + 1
  ELSE eatLine(buf, str + 1)

\* match(in, size, ref): every byte of ref equals the byte of in at the same
\* place, and ref is size bytes long; an empty ref never matches
match(in, size, ref) ==
  IF Len(ref) = 0 THEN FALSE
  ELSE /\ \A c \in 1..Len(ref) : ref[c] = At(in, c - 1)
       /\ size = Len(ref)

\* the loop of toFloat: n the decimal digits of the double n (an integer;
\* leading zeros dropped), k the number of divisions of f by 10, is_point
\* whether the point was seen.  A read behind the modelled memory is a fault.
RECURSIVE toFloatLoop(_, _, _, _, _)
toFloatLoop(mem, str, n, k, is_point) ==
  IF str >= Len(mem) THEN [from |-> str, n |-> n, k |-> k, err |-> "fault"]
  ELSE IF mem[str + 1] = ";" THEN [from |-> str, n |-> n, k |-> k, err |-> ""]
  ELSE toFloatLoop(mem, str + 1,
                   IF isDigit(mem[str + 1]) /\ ~(n = <<>> /\ mem[str + 1] = "0")
                   THEN Append(n, mem[str + 1]) ELSE n,
                   IF is_point THEN k + 1 ELSE k,
                   is_point \/ mem[str + 1] = ".")

\* toFloat: the value returned is n * f, that is n / 10^k
toFloat(mem, str) ==
  LET p == eatWS(mem, str)
  IN  IF ~isDigit(At(mem, p))
      THEN [from |-> p, n |-> <<>>, k |-> 0, err |-> "MalformedVersion"]
      ELSE toFloatLoop(mem, p, <<>>, 0, FALSE)

\* version == 2.0 for the value n / 10^k: n is 2 followed by k zeros (the
\* doubles n and f give exactly 2.0 then for k <= 5, and never otherwise)
IsVersion2(n, k) ==
  /\ Len(n) = k + 1
  /\ n[1] = "2"
  /\ \A i \in 2..(k + 1) : n[i] = "0"

\* the end of the run of digits that starts at str
RECURSIVE DigitsEnd(_, _)
DigitsEnd(buf, str) == IF isDigit(At(buf, str)) THEN DigitsEnd(buf, str + 1) ELSE str

\* toQubit(str, n): q[<digits>], the digits appended to n
toQubit(buf, str, n) ==
  LET p == eatWS(buf, str)
      e == DigitsEnd(buf, p + 2)
      bad(at, out) == [from |-> at, to |-> out, digits |-> <<>>, err |-> "MalformedQubitRef"]
  IN  IF At(buf, p) # "q" THEN bad(p, n)
      ELSE IF At(buf, p + 1) # "[" THEN bad(p + 1, n)
      ELSE IF ~isDigit(At(buf, p + 2)) THEN bad(p + 2, n)
      ELSE IF At(buf, e) # "]" THEN bad(e, n \o SubSeq(buf, p + 3, e))
      ELSE [from |-> e + 1, to |-> n \o SubSeq(buf, p + 3, e),
            digits |-> SubSeq(buf, p + 3, e), err |-> ""]

(***************************************************************************)
(* Gate catalog.  The code indexes it 0..12, the model 1..13; 0 stands for *)
(* the LOGERROR that ends translate_gate.                                  *)
(***************************************************************************)
MAX_GATENAME_LEN == 16
MAX_GATES == 13

GATE_QASM ==
  << <<"i">>, <<"x">>, <<"y">>, <<"z">>, <<"h">>, <<"s">>, <<"s", "d", "g">>,
     <<"c", "x">>, <<"c", "y">>, <<"c", "z">>, <<"s", "w", "a", "p">>,
     <<"i", "s", "w", "a", "p">>, <<"m", "e", "a", "s", "u", "r", "e">> >>

GATE_STIM ==
  << <<"I">>, <<"X">>, <<"Y">>, <<"Z">>, <<"H">>, <<"S">>, <<"S", "_", "D", "A", "G">>,
     <<"C", "X">>, <<"C", "Y">>, <<"C", "Z">>, <<"S", "W", "A", "P">>,
     <<"I", "S", "W", "A", "P">>, <<"M">> >>

\* the inner loop of translate_gate: c counts while ref[c] is not NUL and
\* equals in[c]
RECURSIVE PrefixCount(_, _, _)
PrefixCount(ref, in, c) ==
  IF c < Len(ref) /\ ref[c + 1] = At(in, c) THEN PrefixCount(ref, in, c + 1) ELSE c

RECURSIVE translate_from(_, _)
translate_from(in, i) ==
  IF i > MAX_GATES THEN 0
  ELSE IF Len(in) = PrefixCount(GATE_QASM[i], in, 0) THEN i
  ELSE translate_from(in, i + 1)

translate_gate(in) == translate_from(in, 1)

(***************************************************************************)
(* Circuit::read_gate.                                                     *)
(***************************************************************************)
\* the mnemonic reader: the length of the run of letters and '_' at from,
\* cut at MAX_GATENAME_LEN
RECURSIVE NameLen(_, _, _)
NameLen(buf, from0, len) ==
  IF isNameChar(At(buf, from0 + len)) /\ len < MAX_GATENAME_LEN
  THEN NameLen(buf, from0, len + 1)
  ELSE len

\* "->", the marker of the classical target of a measurement
ARROW == <<"-", ">">>

\* the operand loop: seps collects the byte each iteration steps over with
\* *from++, ops the digits each toQubit call copied
RECURSIVE OperandLoop(_, _, _, _, _)
OperandLoop(buf, from0, to0, seps0, ops0) ==
  IF At(buf, from0) # ";" /\ ~match(Suffix(buf, from0), 2, ARROW) /\ from0 < Len(buf)
  THEN LET c == At(buf, from0)
           q == toQubit(buf, from0 + 1, IF c = "," THEN Append(to0, " ") ELSE to0)
       IN  IF q.err # ""
           THEN [from |-> q.from, to |-> q.to, seps |-> Append(seps0, c),
                 ops |-> ops0, err |-> q.err]
           ELSE OperandLoop(buf, eatWS(buf, q.from), q.to,
                            Append(seps0, c), Append(ops0, q.digits))
  ELSE [from |-> from0, to |-> to0, seps |-> seps0, ops |-> ops0, err |-> ""]

\* GateHead without the run compaction: the mnemonic on every statement
GateHeadNoFuse(gate_stim, prev0, lnx) ==
  (IF prev0 # <<>> THEN EOL(lnx) ELSE <<>>) \o gate_stim \o <<" ">>

\* what read_gate writes before the operands: a space when the Stim mnemonic
\* is the previous one, and else the line terminator (when there is a
\* previous mnemonic), the mnemonic and a space
GateHead(gate_stim, prev0, lnx) ==
  IF match(gate_stim, Len(gate_stim), prev0)
  THEN <<" ">>
  ELSE (IF prev0 # <<>> THEN EOL(lnx) ELSE <<>>) \o gate_stim \o <<" ">>

\* GateEnd that steps over the "->" marker alone and keeps the rest of the line
GateEndMarkerOnly(buf, from0) ==
  IF At(buf, from0) = ";" THEN from0 + 1
  ELSE IF match(Suffix(buf, from0), 2, ARROW) THEN from0 + 2
  ELSE from0

\* the terminator of a gate statement: ';' is stepped over, "->" drops the
\* rest of the line
GateEnd(buf, from0) ==
  IF At(buf, from0) = ";" THEN from0 + 1
  ELSE IF match(Suffix(buf, from0), 2, ARROW) THEN eatLine(buf, from0)
  ELSE from0

read_gate(buf, from0, to0, prev0, lnx) ==
  LET p    == eatWS(buf, from0)
      len  == NameLen(buf, p, 0)
      name == SubSeq(buf, p + 1, p + len)
      idx  == translate_gate(name)
      stop(at, e, nm, i) ==
        [from |-> at, to |-> to0, prev |-> prev0, gate_qasm |-> nm, idx |-> i,
         seps |-> <<>>, ops |-> <<>>, err |-> e]
  IN  IF len = MAX_GATENAME_LEN THEN stop(p, "GateNameTooLong", <<>>, 0)
      ELSE IF idx = 0 THEN stop(p + len, "UnknownGate", name, 0)
      ELSE LET gate_stim == GATE_STIM[idx]
               r == OperandLoop(buf, p + len, to0 \o GateHead(gate_stim, prev0, lnx),
                                <<>>, <<>>)
           IN  [from |-> IF r.err = "" THEN GateEnd(buf, r.from) ELSE r.from,
                to |-> r.to,
                prev |-> IF r.err = "" THEN gate_stim ELSE prev0,
                gate_qasm |-> name, idx |-> idx,
                seps |-> r.seps, ops |-> r.ops, err |-> r.err]

(***************************************************************************)
(* Inputs.  A file is a concatenation of statements; the statements of the *)
(* mixed family are the fragments below.                                   *)
(***************************************************************************)
Fragments ==
  { <<"h", " ", "q", "[", "0", "]", ";">>,                                \* h q[0];
    <<"h", " ", "q", "[", "1", "]", ";", "\n">>,                          \* h q[1];\n
    <<"x", " ", "q", "[", "0", "]", ";">>,                                \* x q[0];
    <<"i", " ", "q", "[", "0", "]", ";">>,                                \* i q[0];
    <<"s", "d", "g", " ", "q", "[", "0", "]", ";">>,                      \* sdg q[0];
    <<"s", "d", " ", "q", "[", "1", "]", ";">>,                           \* sd q[1];
    <<";">>,                                                              \* ;
    <<"t", " ", "q", "[", "0", "]", ";">>,                                \* t q[0];
    <<"c", "x", " ", "q", "[", "0", "]", ",", "q", "[", "1", "]", ";", "\n">>,
                                                                          \* cx q[0],q[1];\n
    <<"m", "e", "a", "s", "u", "r", "e", " ", "q", "[", "0", "]", " ",
      "-", ">", " ", "c", "[", "1", "]", ";", "\n">>,                     \* measure q[0] -> c[1];\n
    <<"q", "r", "e", "g", " ", "q", "[", "1", "2", "]", ";", "\n">>,      \* qreg q[12];\n
    <<"c", "r", "e", "g", " ", "c", "[", "2", "]", ";", "\n">>,           \* creg c[2];\n
    <<"i", "n", "c", "l", "u", "d", "e", " ", "q", ".", "i", ";", "\n">>, \* include q.i;\n
    <<"g", "a", "t", "e", " ", "g", " ", "a", "{", "\n">>,                \* gate g a{\n
    <<"O", "P", "E", "N", "Q", "A", "S", "M", " ", "2", ".", "0", ";", "\n">>,
                                                                          \* OPENQASM 2.0;\n
    <<"O", "P", "E", "N", "Q", "A", "S", "M", " ", "2">>,                 \* OPENQASM 2
    <<"O", "P", "E", "N", "Q", "A", "S", "M", " ", "3", ".", "0", ";", "\n">>,
                                                                          \* OPENQASM 3.0;\n
    <<"O", "P", "E", "N", "Q", "A", "S", "M", " ", "x", ";">>,            \* OPENQASM x;
    <<"h", " ", "q", "[", "0", "]", "x", "q", "[", "1", "]", ";">>,       \* h q[0]xq[1];
    <<"s", "d", "g", ";">>,                                               \* sdg;
    <<"a", "b", "c", "d", "e", "f", "g", "h", "i", "j", "k", "l", "m",
      "n", "o", "p", ";">>,                                               \* abcdefghijklmnop;
    <<"h", " ", "q", "[", "x", "]", ";">>,                                \* h q[x];
    <<"q", "r", "e", "g", " ", "q", "[", "]", ";">>,                      \* qreg q[];
    <<"m", "e", "a", "s", "u", "r", "e", " ", "q", "[", "7", "]", "-", ">", "c", "[", "0", "]",
      ";", " ", "x", " ", "q", "[", "1", "]", ";", "\n">>,                \* measure q[7]->c[0]; x q[1];\n
    <<" ", "\n">> }                                                       \* blank line

RECURSIVE MixedInputs(_)
MixedInputs(n) ==
  IF n = 0 THEN {<<>>}
  ELSE MixedInputs(n - 1) \cup {a \o f : a \in MixedInputs(n - 1), f \in Fragments}

\* the operands of the statements of a run
RunDigits == {<<"0">>, <<"7">>, <<"1", "2">>}

\* <mnemonic> q[<digits>];\n
GateStmt(g, d) == GATE_QASM[g] \o <<" ", "q", "[">> \o d \o <<"]", ";", "\n">>

RECURSIVE RunInput(_, _)
RunInput(g, ds) ==
  IF ds = <<>> THEN <<>> ELSE GateStmt(g, Head(ds)) \o RunInput(g, Tail(ds))

RunOperands == UNION {[1..k -> RunDigits] : k \in 1..MaxRun}

RunInputs == {RunInput(g, ds) : g \in 1..MAX_GATES, ds \in RunOperands}

\* measure q[<i>] -> c[<j>];\n
MeasureStmt(i, j) ==
  <<"m", "e", "a", "s", "u", "r", "e", " ", "q", "[">> \o i
    \o <<"]", " ", "-", ">", " ", "c", "[">> \o j \o <<"]", ";", "\n">>

ClassicalDigits == {<<"1">>, <<"3", "4">>}

RECURSIVE MeasureInput(_, _)
MeasureInput(is, js) ==
  IF is = <<>> THEN <<>>
  ELSE MeasureStmt(Head(is), Head(js)) \o MeasureInput(Tail(is), Tail(js))

MeasureInputs ==
  UNION {{MeasureInput(is, js) : is \in [1..k -> RunDigits], js \in [1..k -> ClassicalDigits]}
           : k \in 1..MaxRun}

\* a gate statement, a directive line, a gate statement
SandwichInputs ==
  LET gates == {GateStmt(g, <<"0">>) : g \in {5, 6, 7}}
      lines == {<<"q", "r", "e", "g", " ", "q", "[", "2", "]", ";", "\n">>,
                <<"c", "r", "e", "g", " ", "c", "[", "2", "]", ";", "\n">>,
                <<"i", "n", "c", "l", "u", "d", "e", " ", "q", ".", "i", ";", "\n">>,
                <<"g", "a", "t", "e", " ", "g", " ", "a", "{", "\n">>,
                <<"O", "P", "E", "N", "Q", "A", "S", "M", " ", "2", ".", "0", ";", "\n">>}
  IN  {a \o d \o b : a \in gates, d \in lines, b \in gates}

\* a directory entry: whether its extension is .qasm, whether canAccess
\* holds of it, and its bytes
QasmFile(b) == [ext |-> TRUE, ok |-> TRUE, bytes |-> b]

BatchEntries ==
  {QasmFile(b) : b \in MixedInputs(1)}
    \cup {[ext |-> TRUE, ok |-> FALSE, bytes |-> <<>>],
          [ext |-> FALSE, ok |-> TRUE, bytes |-> <<>>]}

Batches ==
  {<<QasmFile(b)>> : b \in MixedInputs(MaxStmts) \cup RunInputs \cup MeasureInputs
                                \cup SandwichInputs}
    \cup UNION {[1..k -> BatchEntries] : k \in 1..MaxFiles}

\* the bytes behind the NUL that ends the input
JunkChars == {NUL, ";", "\n"}
Junk == [1..MaxOverrun -> JunkChars]

(***************************************************************************)
(* State.                                                                  *)
(***************************************************************************)
VARIABLES
  files,          \* the directory entries main iterates over
  linux,          \* whether the build defines __linux__ or __CYGWIN__
  pc,             \* "main": between two entries; "scan": in to_stim's loop;
                  \* "done": main returned; "exit": exit(1); "fault": crashed
  fidx,           \* the entry main's loop is at
  qasm,           \* Circuit::qasm, the input bytes (size is Len(qasm))
  from,           \* to_stim's read cursor, an offset into qasm (eof is size)
  stim,           \* the bytes written through to_stim's write cursor `to`
  prev,           \* Circuit::prev, the Stim mnemonic written last
  max_qubits,     \* Circuit::max_qubits
  disk,           \* per entry: <<>>, or <<bytes>> of the .stim file written
  err,            \* the LOGERROR that ended the run, "" when none
  ub,             \* a write behind stim's allocation or a read behind qasm's
                  \* NUL has happened
  last,           \* the statement to_stim's loop handled last in this file:
                  \* "none", "gate" or "directive"
  gate_qasm,      \* read_gate's local gate_qasm of the last call
  stim_gate_idx,  \* read_gate's local stim_gate_idx of the last call (0: none)
  seps,           \* the bytes the last read_gate stepped over with *from++
  operands        \* the digits of each toQubit call of the last read_gate

vars ==
  <<files, linux, pc, fidx, qasm, from, stim, prev, max_qubits, disk, err, ub,
    last, gate_qasm, stim_gate_idx, seps, operands>>

gateVars    == <<gate_qasm, stim_gate_idx, seps, operands>>
circuitVars == <<qasm, from, stim, prev, max_qubits>>

MAX_QUBIT_DIGITS == 32

\* stim is calloc(size + 1): a write ends behind it
Overflows(to, buf) == Len(to) > Len(buf) + 1

Init ==
  /\ files \in Batches
  /\ linux \in BOOLEAN
  /\ pc = "main"
  /\ fidx = 1
  /\ qasm = <<>>
  /\ from = 0
  /\ stim = <<>>
  /\ prev = <<>>
  /\ max_qubits = <<>>
  /\ disk = [i \in 1..Len(files) |-> <<>>]
  /\ err = ""
  /\ ub = FALSE
  /\ last = "none"
  /\ gate_qasm = <<>>
  /\ stim_gate_idx = 0
  /\ seps = <<>>
  /\ operands = <<>>

\* LOGERROR that prints the message and returns
LOGWARN(e) == pc' = pc /\ err' = e

\* LOGERROR: the message and exit(1)
LOGERROR(e) == pc' = "exit" /\ err' = e

(***************************************************************************)
(* main's loop over the directory entries.                                 *)
(***************************************************************************)
\* an entry whose extension is not .qasm
Skip ==
  /\ pc = "main" /\ fidx <= Len(files)
  /\ ~files[fidx].ext
  /\ fidx' = fidx + 1
  /\ UNCHANGED <<files, linux, pc, circuitVars, disk, err, ub, last, gateVars>>

Inaccessible ==
  /\ pc = "main" /\ fidx <= Len(files)
  /\ files[fidx].ext /\ ~files[fidx].ok
  /\ LOGERROR("InaccessibleFile")
  /\ UNCHANGED <<files, linux, fidx, circuitVars, disk, ub, last, gateVars>>

\* new Circuit() and read_qasm
ReadQasm ==
  /\ pc = "main" /\ fidx <= Len(files)
  /\ files[fidx].ext /\ files[fidx].ok
  /\ qasm' = files[fidx].bytes
  /\ from' = 0
  /\ stim' = <<>>
  /\ prev' = <<>>
  /\ max_qubits' = <<>>
  /\ last' = "none"
  /\ gate_qasm' = <<>>
  /\ stim_gate_idx' = 0
  /\ seps' = <<>>
  /\ operands' = <<>>
  /\ pc' = "scan"
  /\ UNCHANGED <<files, linux, fidx, disk, err, ub>>

MainReturn ==
  /\ pc = "main" /\ fidx > Len(files)
  /\ pc' = "done"
  /\ UNCHANGED <<files, linux, fidx, circuitVars, disk, err, ub, last, gateVars>>

(***************************************************************************)
(* to_stim's loop: one action per branch of the dispatch.                  *)
(***************************************************************************)
OPENQASM == <<"O", "P", "E", "N", "Q", "A", "S", "M">>
QREG     == <<"q", "r", "e", "g">>
CREG     == <<"c", "r", "e", "g">>
INCLUDE  == <<"i", "n", "c", "l", "u", "d", "e">>
GATE     == <<"g", "a", "t", "e">>

\* the cursor after the eatWS that opens an iteration
Here == eatWS(qasm, from)

\* from < eof, and no NUL after the white space
InLoop == pc = "scan" /\ from < Len(qasm) /\ At(qasm, Here) # NUL

IsVersion == match(Suffix(qasm, Here), 8, OPENQASM)
IsQreg    == ~IsVersion /\ match(Suffix(qasm, Here), 4, QREG)
IsCreg    == ~IsVersion /\ ~IsQreg /\ match(Suffix(qasm, Here), 4, CREG)
IsInclude == ~IsVersion /\ ~IsQreg /\ ~IsCreg /\ match(Suffix(qasm, Here), 7, INCLUDE)
IsGate    == ~IsVersion /\ ~IsQreg /\ ~IsCreg /\ ~IsInclude
               /\ match(Suffix(qasm, Here), 4, GATE)
IsStmt    == ~IsVersion /\ ~IsQreg /\ ~IsCreg /\ ~IsInclude /\ ~IsGate

\* OPENQASM <version>; toFloat runs to the next ';' wherever it is, so the
\* bytes behind the input's NUL are read when the input has none: they are
\* any bytes, and the memory ends behind them
Version ==
  /\ InLoop /\ IsVersion
  /\ \E junk \in Junk :
       LET mem == qasm \o <<NUL>> \o junk
           r   == toFloat(mem, Here + 8)
           e   == eatLine(mem, r.from)
       IN  /\ ub' = (ub \/ r.from > Len(qasm))
           /\ IF r.err = "fault"
              THEN pc' = "fault" /\ from' = r.from /\ UNCHANGED err
              ELSE IF r.err # ""
              THEN LOGERROR(r.err) /\ from' = r.from
              ELSE IF ~IsVersion2(r.n, r.k)
              THEN LOGERROR("UnsupportedVersion") /\ from' = r.from
              ELSE IF e >= Len(mem)
              THEN pc' = "fault" /\ from' = e /\ UNCHANGED err
              ELSE from' = e /\ UNCHANGED <<pc, err>>
  /\ last' = "directive"
  /\ UNCHANGED <<files, linux, fidx, qasm, stim, prev, max_qubits, disk, gateVars>>

\* qreg q[<digits>]: the header line
Qreg ==
  /\ InLoop /\ IsQreg
  /\ LET q == toQubit(qasm, Here + 4, <<>>)
         out == stim \o <<"#">> \o q.digits \o EOL(linux)
     IN  /\ max_qubits' = q.to
         /\ IF q.err # ""
            THEN LOGERROR(q.err) /\ from' = q.from /\ UNCHANGED stim
                 /\ ub' = (ub \/ Len(q.to) > MAX_QUBIT_DIGITS + 1)
            ELSE /\ stim' = out
                 /\ from' = eatLine(qasm, q.from)
                 /\ ub' = (ub \/ Overflows(out, qasm) \/ Len(q.to) > MAX_QUBIT_DIGITS)
                 /\ UNCHANGED <<pc, err>>
  /\ last' = "directive"
  /\ UNCHANGED <<files, linux, fidx, qasm, prev, disk, gateVars>>

SkipLine ==
  /\ from' = eatLine(qasm, Here)
  /\ last' = "directive"
  /\ UNCHANGED <<files, linux, pc, fidx, qasm, stim, prev, max_qubits, disk, err, ub,
                 gateVars>>

Creg == InLoop /\ IsCreg /\ SkipLine

Include == InLoop /\ IsInclude /\ SkipLine

GateDecl == InLoop /\ IsGate /\ SkipLine

ReadGate ==
  /\ InLoop /\ IsStmt
  /\ LET r == read_gate(qasm, Here, stim, prev, linux)
     IN  /\ from' = r.from
         /\ stim' = r.to
         /\ prev' = r.prev
         /\ gate_qasm' = r.gate_qasm
         /\ stim_gate_idx' = r.idx
         /\ seps' = r.seps
         /\ operands' = r.ops
         /\ ub' = (ub \/ Overflows(r.to, qasm))
         /\ IF r.err # "" THEN LOGERROR(r.err) ELSE UNCHANGED <<pc, err>>
  /\ last' = "gate"
  /\ UNCHANGED <<files, linux, fidx, qasm, max_qubits, disk>>

\* the end of to_stim: the last line terminator, the .stim file, and
\* main's delete of the circuit (munmap fails on the mapping of an empty
\* file, which mmap refused)
ToStimEnd ==
  /\ pc = "scan" /\ ~(from < Len(qasm) /\ At(qasm, Here) # NUL)
  /\ LET out == stim \o EOL(linux)
     IN  /\ ub' = (ub \/ Overflows(out, qasm))
         /\ \E fopen_ok \in BOOLEAN :
              IF ~fopen_ok
              THEN LOGERROR("StimPathMissing") /\ stim' = out
                   /\ UNCHANGED <<fidx, qasm, from, prev, max_qubits, disk, last>>
              ELSE /\ disk' = [disk EXCEPT ![fidx] = <<out>>]
                   /\ IF linux /\ Len(qasm) = 0
                      THEN LOGERROR("CleanMapping") /\ stim' = out
                           /\ UNCHANGED <<fidx, qasm, from, prev, max_qubits, last>>
                      ELSE /\ pc' = "main" /\ fidx' = fidx + 1
                           /\ qasm' = <<>> /\ from' = 0 /\ stim' = <<>>
                           /\ prev' = <<>> /\ max_qubits' = <<>>
                           /\ last' = "none"
                           /\ UNCHANGED err
  /\ UNCHANGED <<files, linux, gateVars>>

\* what the run can do once memory it does not own was written or read:
\* carry on (the other actions) or crash
Fault ==
  /\ ub /\ pc \in {"main", "scan"}
  /\ pc' = "fault"
  /\ UNCHANGED <<files, linux, fidx, circuitVars, disk, err, ub, last, gateVars>>

Next ==
  \/ Skip
  \/ Inaccessible
  \/ ReadQasm
  \/ MainReturn
  \/ Version
  \/ Qreg
  \/ Creg
  \/ Include
  \/ GateDecl
  \/ ReadGate
  \/ ToStimEnd
  \/ Fault

Spec == Init /\ [][Next]_vars

(***************************************************************************)
(* Properties.                                                             *)
(***************************************************************************)
\* a step of ReadGate that accepted its statement: it is the one step that
\* leaves a gate statement handled last, the run going on, the cursor moved
GateAccepted ==
  pc = "scan" /\ pc' = "scan" /\ last' = "gate" /\ from' # from /\ err' = ""

\* s begins with t
StartsWith(s, t) == Len(t) <= Len(s) /\ SubSeq(s, 1, Len(t)) = t

\* what a step appended to the output
Appended == SubSeq(stim', Len(stim) + 1, Len(stim'))

CatalogNames == {GATE_QASM[i] : i \in 1..MAX_GATES}

\* the last lookup of this file, if any, gave the index of the mnemonic
\* itself.  C4, C5, C8 and C10 are stated of such states, so that what they
\* say does not rest on how a mnemonic outside the catalog is looked up (C1).
ExactLookup == stim_gate_idx = 0 \/ gate_qasm = GATE_QASM[stim_gate_idx]

\* C1: the catalog lookup is an exact match: the lookup of mnemonic m gives
\* index i if and only if m is GATE_QASM[i], and a mnemonic that is not a
\* catalog name (the empty one, a proper prefix of a name) ends in UnknownGate.
C1_ExactMatch ==
  (last = "gate" /\ err # "GateNameTooLong") =>
     /\ \A i \in 1..MAX_GATES : (stim_gate_idx = i) <=> (gate_qasm = GATE_QASM[i])
     /\ gate_qasm \notin CatalogNames => err = "UnknownGate"

\* the operand tokens of a run: " <digits>" per statement
RECURSIVE RunTokens(_)
RunTokens(ds) == IF ds = <<>> THEN <<>> ELSE <<" ">> \o Head(ds) \o RunTokens(Tail(ds))

\* each run of the run family, with the one line it is to become
RunTable ==
  {[in |-> RunInput(g, ds), k |-> Len(ds), line |-> GATE_STIM[g] \o RunTokens(ds)]
     : g \in 1..MAX_GATES, ds \in RunOperands}

\* C2: run compaction: the .stim file of k consecutive statements of one
\* catalog mnemonic, one single-qubit operand each, is exactly one line: the
\* Stim mnemonic once, then the k operands in source order, space-separated.
C2_RunCompaction ==
  \A f \in 1..Len(files) :
    disk[f] # <<>> =>
      \A r \in RunTable :
        files[f].bytes = r.in => disk[f][1] = r.line \o EOL(linux)

\* a run of three statements was translated and written
C2_Witness ==
  \E f \in 1..Len(files) :
    /\ disk[f] # <<>>
    /\ \E r \in RunTable : r.k = 3 /\ files[f].bytes = r.in

\* C3: mnemonic switch: a gate statement accepted right after an accepted
\* gate statement with another source mnemonic starts a new line: the line
\* terminator and its full Stim mnemonic come before its operands.
C3_MnemonicSwitch ==
  [][(GateAccepted /\ last = "gate" /\ gate_qasm' # gate_qasm)
       => StartsWith(Appended, EOL(linux) \o GATE_STIM[stim_gate_idx'] \o <<" ">>)]_vars

\* C4: prev is "none" at the start of a file and right after every directive
\* line, so a gate statement right after a directive line writes its full
\* Stim mnemonic and is not fused onto the line of an earlier gate statement.
C4_PrevNoneAfterDirective ==
  [][/\ (pc' = "scan" /\ last' \in {"none", "directive"} /\ ExactLookup') => prev' = <<>>
     /\ (GateAccepted /\ last = "directive" /\ ExactLookup /\ ExactLookup')
          => \/ StartsWith(Appended, GATE_STIM[stim_gate_idx'] \o <<" ">>)
             \/ StartsWith(Appended, EOL(linux) \o GATE_STIM[stim_gate_idx'] \o <<" ">>)]_vars

\* a step of Qreg that accepted its directive: the one step of a directive
\* that writes
QregAccepted == pc = "scan" /\ pc' = "scan" /\ last' = "directive" /\ stim' # stim

\* the digits of the qreg directive at the cursor
QregDigits ==
  LET b == eatWS(qasm, Here + 4) + 2
  IN  SubSeq(qasm, b + 1, DigitsEnd(qasm, b))

\* C5: a qreg directive writes the header #<digits> where it occurs, as a
\* complete line of its own: it starts at the beginning of a line, ends with
\* the line terminator, and QubitCount is the digits of the directive.
C5_HeaderOwnLine ==
  [][(QregAccepted /\ ExactLookup) =>
       /\ Appended = <<"#">> \o QregDigits \o EOL(linux)
       /\ stim = <<>> \/ stim[Len(stim)] = "\n"
       /\ max_qubits' = QregDigits]_vars

\* measure q[<i>] ->
MeasureHead(i) ==
  <<"m", "e", "a", "s", "u", "r", "e", " ", "q", "[">> \o i \o <<"]">>

\* the offset behind the first "\n" at or after offset i, the end of buf
\* when there is none
LineEnd(buf, i) ==
  IF \E j \in (i + 1)..Len(buf) : buf[j] = "\n"
  THEN CHOOSE j \in (i + 1)..Len(buf) :
         buf[j] = "\n" /\ \A h \in (i + 1)..(j - 1) : buf[h] # "\n"
  ELSE Len(buf)

\* the statement at the cursor is measure q[<i>] -> ...
MeasureAt(i) ==
  /\ pc = "scan" /\ from < Len(qasm)
  /\ StartsWith(Suffix(qasm, Here), MeasureHead(i))
  /\ match(Suffix(qasm, eatWS(qasm, Here + Len(MeasureHead(i)))), 2, ARROW)

\* C6: a statement measure q[<i>] -> c[<j>]; is accepted and writes M with
\* the one operand <i> and nothing else: the operand loop stops at "->" and
\* the rest of the physical line is consumed without a byte written.
C6_MeasureDropsTarget ==
  [][\A i \in RunDigits :
       (MeasureAt(i) /\ pc' # "fault") =>
          /\ GateAccepted
          /\ operands' = <<i>>
          /\ Appended = (IF prev = <<"M">> THEN <<" ">>
                         ELSE (IF prev = <<>> THEN <<>> ELSE EOL(linux)) \o <<"M", " ">>) \o i
          /\ from' = LineEnd(qasm, Here)]_vars

\* a measurement with a classical target was translated after another
\* statement, and text followed it on its line
C6_Witness ==
  /\ pc = "scan" /\ last = "gate" /\ gate_qasm = GATE_QASM[13]
  /\ from > 0 /\ qasm[from] = "\n"
  /\ \E j \in 1..(from - 1) : qasm[j] = ">" /\ \E h \in (j + 1)..(from - 1) : qasm[h] = "x"
  /\ operands = <<<<"7">>>>

\* the errors of the translation of a file
Raised ==
  {"UnsupportedVersion", "MalformedVersion", "MalformedQubitRef", "GateNameTooLong",
   "UnknownGate", "InaccessibleFile"}

\* C7: fail fast, no partial output: once an error is raised the run is over,
\* the file it was raised in has no .stim file, and no later entry of the
\* batch has one.
C7_FailFast ==
  err \in Raised =>
    /\ pc = "exit"
    /\ \A g \in fidx..Len(files) : disk[g] = <<>>

\* an error was raised with output already in the buffer and a readable
\* .qasm entry still to come
C7_Witness ==
  /\ err \in Raised /\ stim # <<>>
  /\ fidx < Len(files) /\ files[fidx + 1].ext /\ files[fidx + 1].ok

\* C8: output buffer bound: while a translation has not aborted, the bytes
\* written to the output buffer, the last line terminator included, are at
\* most the size + 1 bytes allocated.
C8_OutputBound ==
  /\ (pc \in {"scan", "main", "done"} /\ err = "" /\ ExactLookup)
       => Len(stim) <= Len(qasm) + 1
  /\ \A f \in 1..Len(files) :
       (err = "" /\ disk[f] # <<>>) => Len(disk[f][1]) <= Len(files[f].bytes) + 1

\* C9: input cursor bound: the read cursor stays within start..end.
C9_CursorBound == 0 <= from /\ from <= Len(qasm)

\* the tokens of s: the maximal runs of bytes other than the space
RECURSIVE Tokens(_, _)
Tokens(s, cur) ==
  IF s = <<>> THEN (IF cur = <<>> THEN <<>> ELSE <<cur>>)
  ELSE IF Head(s) = " "
       THEN (IF cur = <<>> THEN <<>> ELSE <<cur>>) \o Tokens(Tail(s), <<>>)
       ELSE Tokens(Tail(s), Append(cur, Head(s)))

\* C10: operand separation: an accepted gate statement steps over white
\* space and ',' only between its qubit references, and writes exactly one
\* operand token per reference, the digits of that reference.
C10_OperandSeparation ==
  [][(GateAccepted /\ ExactLookup') =>
       /\ \A k \in 1..Len(seps') : isSpace(seps'[k]) \/ seps'[k] = ","
       /\ LET head == GateHead(GATE_STIM[stim_gate_idx'], prev, linux)
          IN  Tokens(SubSeq(Appended, Len(head) + 1, Len(Appended)), <<>>) = operands']_vars

====
